---- MODULE Spec2Model ----
(***************************************************************************)
(* Chat-session persistence of tech-spec-generator-api.                    *)
(*                                                                         *)
(* The module models the two StorageService classes of                     *)
(* src/src/services/storage.service.ts (the in-memory Map and the          *)
(* Prisma/PostgreSQL one), the chat_sessions table of the migration and    *)
(* the four handlers of src/src/controllers/chat.controller.ts.            *)
(*                                                                         *)
(* Values.  A timestamp string is a record [form, inst]: form "iso" is the *)
(* canonical output of Date.prototype.toISOString, form "date" another     *)
(* spelling of the same instant (such as "2024-01-01"), form "bad" a       *)
(* string new Date() cannot parse.  Metadata is "undefined" (the property  *)
(* is absent from the ChatSession), "null" (the SQL NULL of the nullable   *)
(* column) or an opaque bag.  A result that is `ChatSession | null` is a   *)
(* sequence of length at most one: << >> is null.                          *)
(***************************************************************************)
EXTENDS Integers, Sequences, FiniteSets, TLC

\* ------------------------------------------------------------------ bounds
\* Largest value of the wall clock (Date.now(), CURRENT_TIMESTAMP).
MaxClock == 2

\* ------------------------------------------------------------------ inputs
SessionIds == {"s1", "s2"}

M1 == [role |-> "user", content |-> "First"]
M2 == [role |-> "model", content |-> "Second"]
MessageLists == {<<M1>>, <<M1, M2>>, <<M2, M1>>}

Undefined == "undefined"
Null == "null"
MetadataBags == {"ua1", "ua2"}

TimestampStrings ==
    { [form |-> "iso", inst |-> 1], [form |-> "date", inst |-> 2],
      [form |-> "bad", inst |-> 0] }

\* interface ChatSession: metadata is optional.
ChatSession ==
    [sessionId : SessionIds, messages : MessageLists,
     timestamp : TimestampStrings, metadata : MetadataBags \cup {Undefined}]

\* ------------------------------------------------------------- Date helpers
NaN == -1

\* new Date(session.timestamp): the instant, or an Invalid Date.
NewDate(s) == IF s.form = "bad" THEN NaN ELSE s.inst

\* session.timestamp.toISOString(): always the canonical spelling.
toISOString(d) == [form |-> "iso", inst |-> d]

\* ------------------------------------------------- Prisma StorageService
\* Position of the row the unique index on sessionId finds, 0 when none.
FindUnique(table, sessionId) ==
    IF \E i \in 1..Len(table) : table[i].sessionId = sessionId
    THEN CHOOSE i \in 1..Len(table) :
            /\ table[i].sessionId = sessionId
            /\ \A j \in 1..(i - 1) : table[j].sessionId # sessionId
    ELSE 0

\* createdAt TIMESTAMP(3) NOT NULL DEFAULT CURRENT_TIMESTAMP: the time of
\* the insert.
DefaultCreatedAt(t) == t

\* updatedAt TIMESTAMP(3) NOT NULL has no default and no write of the
\* service names it: the Prisma schema marks it @updatedAt, which makes the
\* client set it to the current time on every create and update.
UpdatedAt(t) == t

\* An update whose SET list also assigns createdAt.
UpdateRowResetsCreatedAt(row, session, t) ==
    [row EXCEPT !.messages = session.messages,
                !.timestamp = NewDate(session.timestamp),
                !.metadata = IF session.metadata = Undefined
                             THEN @ ELSE session.metadata,
                !.createdAt = t,
                !.updatedAt = UpdatedAt(t)]

\* The `update` branch of the upsert: a property whose value is undefined
\* is left out of the SET list, so the column keeps its value; createdAt is
\* not in the SET list.
UpdateRow(row, session, t) ==
    [row EXCEPT !.messages = session.messages,
                !.timestamp = NewDate(session.timestamp),
                !.metadata = IF session.metadata = Undefined
                             THEN @ ELSE session.metadata,
                !.updatedAt = UpdatedAt(t)]

\* The `create` branch of the upsert: an undefined optional column is NULL.
CreateRow(session, t) ==
    [sessionId |-> session.sessionId,
     messages  |-> session.messages,
     timestamp |-> NewDate(session.timestamp),
     metadata  |-> IF session.metadata = Undefined
                   THEN Null ELSE session.metadata,
     createdAt |-> DefaultCreatedAt(t),
     updatedAt |-> UpdatedAt(t)]

\* An upsert that never finds the existing row.
UpsertAlwaysCreates(table, session, t, dbOk) ==
    IF ~dbOk \/ NewDate(session.timestamp) = NaN
    THEN [rejected |-> TRUE, table |-> table]
    ELSE [rejected |-> FALSE,
          table |-> Append(table, CreateRow(session, t))]

\* An upsert whose update names no row: every row of the table is written.
UpsertUpdatesEveryRow(table, session, t, dbOk) ==
    LET i == FindUnique(table, session.sessionId) IN
    IF ~dbOk \/ NewDate(session.timestamp) = NaN
    THEN [rejected |-> TRUE, table |-> table]
    ELSE IF i # 0
    THEN [rejected |-> FALSE,
          table |-> [k \in 1..Len(table) |-> UpdateRow(table[k], session, t)]]
    ELSE [rejected |-> FALSE,
          table |-> Append(table, CreateRow(session, t))]

\* An upsert done as two statements, the second of which reports the
\* failure after the first has written.
UpsertRejectsAfterWrite(table, session, t, dbOk) ==
    LET i == FindUnique(table, session.sessionId) IN
    IF NewDate(session.timestamp) = NaN
    THEN [rejected |-> TRUE, table |-> table]
    ELSE IF i # 0
    THEN [rejected |-> ~dbOk,
          table |-> [table EXCEPT ![i] = UpdateRow(table[i], session, t)]]
    ELSE [rejected |-> ~dbOk,
          table |-> Append(table, CreateRow(session, t))]

\* prisma.chatSession.upsert: rejects (an Invalid Date fails argument
\* validation, an unreachable database fails the query) without writing,
\* else updates the row of that sessionId or inserts one.
Upsert(table, session, t, dbOk) ==
    LET i == FindUnique(table, session.sessionId) IN
    IF ~dbOk \/ NewDate(session.timestamp) = NaN
    THEN [rejected |-> TRUE, table |-> table]
    ELSE IF i # 0
    THEN [rejected |-> FALSE,
          table |-> [table EXCEPT ![i] = UpdateRow(table[i], session, t)]]
    ELSE [rejected |-> FALSE,
          table |-> Append(table, CreateRow(session, t))]

\* saveSession: the catch block rethrows every rejection of the upsert.
saveSession(table, session, t, dbOk) ==
    LET r == Upsert(table, session, t, dbOk) IN
    [threw |-> r.rejected, table |-> r.table]

\* A read that hands the messages back latest first.
RowToSessionLatestFirst(row) ==
    [sessionId |-> row.sessionId,
     messages  |-> [k \in 1..Len(row.messages) |->
                      row.messages[Len(row.messages) + 1 - k]],
     timestamp |-> toISOString(row.timestamp),
     metadata  |-> row.metadata]

\* The ChatSession built from a row (getSession and the map of getAllSessions).
RowToSession(row) ==
    [sessionId |-> row.sessionId,
     messages  |-> row.messages,
     timestamp |-> toISOString(row.timestamp),
     metadata  |-> row.metadata]

\* What a call that returns normally hands back.
Returns(value) == [threw |-> FALSE, value |-> value]

\* A getSession whose catch block rethrows.
getSessionRethrows(table, sessionId, dbOk) ==
    LET i == FindUnique(table, sessionId) IN
    IF ~dbOk THEN [threw |-> TRUE, value |-> << >>]
    ELSE IF i = 0 THEN Returns(<< >>)
    ELSE Returns(<< RowToSession(table[i]) >>)

\* getSession: null when no row matches; the catch block returns null too
\* when findUnique rejects.
getSession(table, sessionId, dbOk) ==
    LET i == FindUnique(table, sessionId) IN
    IF ~dbOk THEN Returns(<< >>)
    ELSE IF i = 0 THEN Returns(<< >>)
    ELSE Returns(<< RowToSession(table[i]) >>)

\* All orders of the rows that are non-increasing in timestamp.  ORDER BY
\* "timestamp" DESC names no second key, so PostgreSQL may return rows of
\* equal timestamp in any order.
FindManyOrderByTimestampDesc(table) ==
    LET n == Len(table)
        Perms == { p \in [1..n -> 1..n] :
                     \A i, j \in 1..n : i # j => p[i] # p[j] }
        Desc(p) == \A k \in 1..(n - 1) :
                     table[p[k]].timestamp >= table[p[k + 1]].timestamp
    IN  { [k \in 1..n |-> table[p[k]]] : p \in { q \in Perms : Desc(q) } }

\* getAllSessions: the possible outcomes; the catch block returns [] when
\* findMany rejects.
getAllSessions(table, dbOk) ==
    IF ~dbOk THEN { Returns(<< >>) }
    ELSE { Returns([k \in 1..Len(r) |-> RowToSession(r[k])]) :
             r \in FindManyOrderByTimestampDesc(table) }

\* The table without the row at position i.
RemoveAt(table, i) ==
    [k \in 1..(Len(table) - 1) |-> IF k < i THEN table[k] ELSE table[k + 1]]

\* A deleteSession whose delete names no row: deleteMany() empties the
\* table.
deleteSessionDeletesAll(table, sessionId, dbOk) ==
    LET i == FindUnique(table, sessionId) IN
    IF ~dbOk \/ i = 0
    THEN [threw |-> FALSE, value |-> FALSE, table |-> table]
    ELSE [threw |-> FALSE, value |-> TRUE, table |-> << >>]

\* A deleteSession without the try/catch: the rejection of prisma delete
\* reaches the caller.
deleteSessionWithoutCatch(table, sessionId, dbOk) ==
    LET i == FindUnique(table, sessionId) IN
    IF ~dbOk \/ i = 0
    THEN [threw |-> TRUE, value |-> FALSE, table |-> table]
    ELSE [threw |-> FALSE, value |-> TRUE, table |-> RemoveAt(table, i)]

\* deleteSession: prisma delete rejects when no row matches (and when the
\* database is unreachable); the catch block turns every rejection into false.
deleteSession(table, sessionId, dbOk) ==
    LET i == FindUnique(table, sessionId) IN
    IF ~dbOk \/ i = 0
    THEN [threw |-> FALSE, value |-> FALSE, table |-> table]
    ELSE [threw |-> FALSE, value |-> TRUE, table |-> RemoveAt(table, i)]

\* A getSessionCount that always hands back the value of its catch block.
getSessionCountOfCatch(table, dbOk) == Returns(0)

\* getSessionCount: the number of rows; the catch block returns 0 when
\* count() rejects.
getSessionCount(table, dbOk) ==
    IF ~dbOk THEN Returns(0) ELSE Returns(Len(table))

\* ----------------------------------------------- in-memory StorageService
\* Position of the entry of a key in the Map, 0 when none.
MapIndex(map, key) ==
    IF \E i \in 1..Len(map) : map[i].key = key
    THEN CHOOSE i \in 1..Len(map) : map[i].key = key
    ELSE 0

\* Map.prototype.set: a new key is appended, an existing key keeps its place.
MapSet(map, key, value) ==
    LET i == MapIndex(map, key) IN
    IF i # 0 THEN [map EXCEPT ![i].value = value]
    ELSE Append(map, [key |-> key, value |-> value])

\* saveSession: this.sessions.set(session.sessionId, session).
memSaveSession(map, session) == MapSet(map, session.sessionId, session)

\* getSession: this.sessions.get(sessionId) || null.
memGetSession(map, sessionId) ==
    LET i == MapIndex(map, sessionId) IN
    IF i = 0 THEN << >> ELSE << map[i].value >>

\* getAllSessions: Array.from(this.sessions.values()), in insertion order.
memGetAllSessions(map) == [k \in 1..Len(map) |-> map[k].value]

\* deleteSession: this.sessions.delete(sessionId).
memDeleteSession(map, sessionId) ==
    LET i == MapIndex(map, sessionId) IN
    IF i = 0 THEN [result |-> FALSE, map |-> map]
    ELSE [result |-> TRUE,
          map |-> [k \in 1..(Len(map) - 1) |->
                     IF k < i THEN map[k] ELSE map[k + 1]]]

\* getSessionCount: this.sessions.size.
memGetSessionCount(map) == Len(map)

\* --------------------------------------------------------------- state
VARIABLES
    rows,       \* the chat_sessions table (Prisma StorageService)
    sessions,   \* this.sessions, the Map of the in-memory StorageService
    now,        \* the wall clock
    last,       \* the latest StorageService call and what it returned
    resp,       \* the latest HTTP response sent
    calls,      \* the saveSession calls in flight, by caller
    sec         \* the SecretsService singleton and its calls

vars == <<rows, sessions, now, last, resp, calls, sec>>

\* A StorageService call: op, the sessionId it names, its ChatSession
\* argument (saveSession), whether the storage round trip worked, whether
\* the call threw, and the returned value by type.
Call(op, sessionId, arg, dbOk, threw, result, flag, count) ==
    [op |-> op, sessionId |-> sessionId, arg |-> arg, dbOk |-> dbOk,
     threw |-> threw, result |-> result, flag |-> flag, count |-> count]

NoCall == Call("none", "", << >>, TRUE, FALSE, << >>, FALSE, 0)

NoResponse == [handler |-> "none", status |-> 0]

\* Two request handlers that may have a saveSession call in flight at the
\* same time.
Callers == {"a", "b"}

\* ------------------------------------------------------- SecretsService
SecretNames == {"DATABASE_URL", "API_KEY"}
Versions == {"latest"}

\* `${secretName}:${version}`
CacheKey(secretName, version) == secretName \o ":" \o version
CacheKeys == { CacheKey(n, v) : n \in SecretNames, v \in Versions }

\* process.env[secretName]: unset, empty or a value.
EnvValues == {Undefined, "", "e1"}

\* What accessSecretVersion comes back with: a rejection, or a payload whose
\* data is absent or empty ("") or a value.
AccessResponses ==
    { [ok |-> FALSE, data |-> ""] }
      \cup { [ok |-> TRUE, data |-> d] : d \in {"", "v1", "v2"} }

\* What a SecretsService call handed back: value is << >> for null;
\* contacted tells whether accessSecretVersion was called for it.
SecretOut(op, caller, key, value, contacted) ==
    [op |-> op, caller |-> caller, key |-> key, value |-> value,
     contacted |-> contacted]

\* The SecretsService after its constructor: ready when the client was
\* built and GCP_PROJECT_ID is set; secretsCache maps a key to << >> (no
\* entry) or <<value>>; pending holds, by caller, the key of a getSecret
\* that awaits accessSecretVersion.
NewSecretsService(isProduction, ready) ==
    [isProduction |-> isProduction,
     ready        |-> isProduction /\ ready,
     secretsCache |-> [k \in CacheKeys |-> << >>],
     pending      |-> [c \in Callers |-> << >>],
     out          |-> SecretOut("none", "", "", << >>, FALSE)]

\* getSecret up to its await, or to its return when it does not get there.
getSecret(s, c, secretName, version, envValue) ==
    LET cacheKey == CacheKey(secretName, version) IN
    IF ~s.isProduction
    THEN [s EXCEPT !.out = SecretOut("getSecret", c, cacheKey,
                                     IF envValue \in {Undefined, ""}
                                     THEN << >> ELSE <<envValue>>, FALSE)]
    ELSE IF s.secretsCache[cacheKey] # << >>
    THEN [s EXCEPT !.out = SecretOut("getSecret", c, cacheKey,
                                     s.secretsCache[cacheKey], FALSE)]
    ELSE IF ~s.ready
    THEN [s EXCEPT !.out = SecretOut("getSecret", c, cacheKey, << >>, FALSE)]
    ELSE [s EXCEPT !.pending[c] = <<cacheKey>>]

\* getSecret from the point where accessSecretVersion settles.
getSecretResumed(s, c, response) ==
    LET cacheKey == s.pending[c][1] IN
    IF response.ok /\ response.data # ""
    THEN [s EXCEPT !.secretsCache[cacheKey] = <<response.data>>,
                   !.pending[c] = << >>,
                   !.out = SecretOut("getSecret", c, cacheKey,
                                     <<response.data>>, TRUE)]
    ELSE [s EXCEPT !.pending[c] = << >>,
                   !.out = SecretOut("getSecret", c, cacheKey, << >>, TRUE)]

\* clearCache: this.secretsCache.clear().
clearCache(s) ==
    [s EXCEPT !.secretsCache = [k \in CacheKeys |-> << >>],
              !.out = SecretOut("clearCache", "", "", << >>, FALSE)]

\* A caller's saveSession call: not made ("idle"), awaiting the upsert
\* ("pending") or returned ("done", threw telling how).
Idle == [pc |-> "idle", session |-> << >>, dbOk |-> TRUE, threw |-> FALSE]

Init ==
    /\ rows = << >>
    /\ sessions = << >>
    /\ now = 0
    /\ last = NoCall
    /\ resp = NoResponse
    /\ calls = [c \in Callers |-> Idle]
    /\ sec = NewSecretsService(FALSE, FALSE)

\* Time passes.
Tick ==
    /\ now < MaxClock
    /\ now' = now + 1
    /\ UNCHANGED <<sec, calls, rows, sessions, last, resp>>

\* A getSession that creates the session it does not find.
GetSessionOrCreate(sessionId, dbOk) ==
    LET r == getSession(rows, sessionId, dbOk)
        made == [sessionId |-> sessionId, messages |-> << >>,
                 timestamp |-> toISOString(now), metadata |-> Undefined]
    IN
    /\ rows' = IF dbOk /\ r.value = << >>
               THEN Append(rows, CreateRow(made, now)) ELSE rows
    /\ last' = Call("getSession", sessionId, << >>, dbOk, r.threw,
                    r.value, FALSE, 0)
    /\ UNCHANGED <<sec, calls, sessions, now, resp>>

\* ------------------------------------- calls on the Prisma StorageService
SaveSession(session, dbOk) ==
    LET r == saveSession(rows, session, now, dbOk) IN
    /\ rows' = r.table
    /\ last' = Call("saveSession", session.sessionId, <<session>>, dbOk,
                    r.threw, << >>, FALSE, 0)
    /\ UNCHANGED <<sec, calls, sessions, now, resp>>

GetSession(sessionId, dbOk) ==
    LET r == getSession(rows, sessionId, dbOk) IN
    /\ last' = Call("getSession", sessionId, << >>, dbOk, r.threw,
                    r.value, FALSE, 0)
    /\ UNCHANGED <<sec, calls, rows, sessions, now, resp>>

GetAllSessions(dbOk) ==
    /\ \E r \in getAllSessions(rows, dbOk) :
          last' = Call("getAllSessions", "", << >>, dbOk, r.threw, r.value,
                       FALSE, 0)
    /\ UNCHANGED <<sec, calls, rows, sessions, now, resp>>

DeleteSession(sessionId, dbOk) ==
    LET r == deleteSession(rows, sessionId, dbOk) IN
    /\ rows' = r.table
    /\ last' = Call("deleteSession", sessionId, << >>, dbOk, r.threw, << >>,
                    r.value, 0)
    /\ UNCHANGED <<sec, calls, sessions, now, resp>>

GetSessionCount(dbOk) ==
    LET r == getSessionCount(rows, dbOk) IN
    /\ last' = Call("getSessionCount", "", << >>, dbOk, r.threw, << >>, FALSE,
                    r.value)
    /\ UNCHANGED <<sec, calls, rows, sessions, now, resp>>

\* The Prisma StorageService called directly, the clock standing still.
Next ==
    \/ \E session \in ChatSession, dbOk \in BOOLEAN : SaveSession(session, dbOk)
    \/ \E sessionId \in SessionIds, dbOk \in BOOLEAN : GetSession(sessionId, dbOk)
    \/ \E dbOk \in BOOLEAN : GetAllSessions(dbOk)
    \/ \E sessionId \in SessionIds, dbOk \in BOOLEAN : DeleteSession(sessionId, dbOk)
    \/ \E dbOk \in BOOLEAN : GetSessionCount(dbOk)

Spec == Init /\ [][Next]_vars

\* ---------------------------------- calls on the in-memory StorageService
MemSaveSession(session) ==
    /\ sessions' = memSaveSession(sessions, session)
    /\ last' = Call("saveSession", session.sessionId, <<session>>, TRUE,
                    FALSE, << >>, FALSE, 0)
    /\ UNCHANGED <<sec, calls, rows, now, resp>>

MemGetSession(sessionId) ==
    /\ last' = Call("getSession", sessionId, << >>, TRUE, FALSE,
                    memGetSession(sessions, sessionId), FALSE, 0)
    /\ UNCHANGED <<sec, calls, rows, sessions, now, resp>>

MemGetAllSessions ==
    /\ last' = Call("getAllSessions", "", << >>, TRUE, FALSE,
                    memGetAllSessions(sessions), FALSE, 0)
    /\ UNCHANGED <<sec, calls, rows, sessions, now, resp>>

MemDeleteSession(sessionId) ==
    LET r == memDeleteSession(sessions, sessionId) IN
    /\ sessions' = r.map
    /\ last' = Call("deleteSession", sessionId, << >>, TRUE, FALSE, << >>,
                    r.result, 0)
    /\ UNCHANGED <<sec, calls, rows, now, resp>>

MemGetSessionCount ==
    /\ last' = Call("getSessionCount", "", << >>, TRUE, FALSE, << >>, FALSE,
                    memGetSessionCount(sessions))
    /\ UNCHANGED <<sec, calls, rows, sessions, now, resp>>

\* The in-memory StorageService called directly.
NextMem ==
    \/ \E session \in ChatSession : MemSaveSession(session)
    \/ \E sessionId \in SessionIds : MemGetSession(sessionId)
    \/ MemGetAllSessions
    \/ \E sessionId \in SessionIds : MemDeleteSession(sessionId)
    \/ MemGetSessionCount

SpecMem == Init /\ [][NextMem]_vars

\* ------------------------------------------- either StorageService
\* The process runs one StorageService or the other: calls go to the Prisma
\* StorageService while the Map holds nothing and to the in-memory one
\* while the table holds nothing.
NextStore ==
    \/ sessions = << >> /\ Next
    \/ rows = << >> /\ NextMem

SpecStore == Init /\ [][NextStore]_vars

\* ------------------------------- both StorageServices given the same calls
\* The same call is made on the Prisma StorageService and on the in-memory
\* one, every storage round trip working; last holds what the Prisma one
\* returned.  The timestamps are strings new Date() parses, so that no
\* upsert is rejected.
PairSessions ==
    [sessionId : SessionIds, messages : {<<M1>>, <<M1, M2>>},
     timestamp : { s \in TimestampStrings : NewDate(s) # NaN },
     metadata : {Undefined}]

PairSaveSession(session) ==
    LET r == saveSession(rows, session, now, TRUE) IN
    /\ rows' = r.table
    /\ sessions' = memSaveSession(sessions, session)
    /\ last' = Call("saveSession", session.sessionId, <<session>>, TRUE,
                    r.threw, << >>, FALSE, 0)
    /\ UNCHANGED <<sec, calls, now, resp>>

PairGetSession(sessionId) ==
    /\ GetSession(sessionId, TRUE)

PairGetAllSessions ==
    /\ GetAllSessions(TRUE)

PairDeleteSession(sessionId) ==
    LET r == deleteSession(rows, sessionId, TRUE) IN
    /\ rows' = r.table
    /\ sessions' = memDeleteSession(sessions, sessionId).map
    /\ last' = Call("deleteSession", sessionId, << >>, TRUE, r.threw, << >>,
                    r.value, 0)
    /\ UNCHANGED <<sec, calls, now, resp>>

PairGetSessionCount ==
    /\ GetSessionCount(TRUE)

NextPair ==
    \/ \E session \in PairSessions : PairSaveSession(session)
    \/ \E sessionId \in SessionIds : PairGetSession(sessionId)
    \/ PairGetAllSessions
    \/ \E sessionId \in SessionIds : PairDeleteSession(sessionId)
    \/ PairGetSessionCount

SpecPair == Init /\ [][NextPair]_vars

\* ------------------------------------- saveSession calls that overlap
\* The sessions a caller saves.  The two callers' payloads differ in every
\* field, so a stored row tells which save wrote each of its columns.
ConcSessions(c) ==
    [sessionId : SessionIds,
     messages  : {IF c = "a" THEN <<M1>> ELSE <<M1, M2>>},
     timestamp : {IF c = "a" THEN [form |-> "iso", inst |-> 1]
                             ELSE [form |-> "date", inst |-> 2]},
     metadata  : {Undefined, IF c = "a" THEN "ua1" ELSE "ua2"}]

\* saveSession up to its await: the upsert is sent, nothing is written yet.
BeginSave(c, session) ==
    /\ calls[c].pc = "idle"
    /\ calls' = [calls EXCEPT ![c] = [pc |-> "pending", session |-> <<session>>,
                                      dbOk |-> TRUE, threw |-> FALSE]]
    /\ UNCHANGED <<sec, rows, sessions, now, last, resp>>

\* The await resumes: PostgreSQL has run the upsert, one INSERT ... ON
\* CONFLICT ("sessionId") DO UPDATE statement, or the query has failed.
CompleteSave(c, dbOk) ==
    /\ calls[c].pc = "pending"
    /\ LET session == calls[c].session[1]
           r == saveSession(rows, session, now, dbOk)
       IN  /\ rows' = r.table
           /\ last' = Call("saveSession", session.sessionId, <<session>>,
                           dbOk, r.threw, << >>, FALSE, 0)
           /\ calls' = [calls EXCEPT ![c] = [pc |-> "done",
                                             session |-> <<session>>,
                                             dbOk |-> dbOk,
                                             threw |-> r.threw]]
    /\ UNCHANGED <<sec, sessions, now, resp>>

\* Both callers have their answer; each may call again.
Settle ==
    /\ \A c \in Callers : calls[c].pc = "done"
    /\ calls' = [c \in Callers |-> Idle]
    /\ UNCHANGED <<sec, rows, sessions, now, last, resp>>

NextConc ==
    \/ \E c \in Callers : \E session \in ConcSessions(c) : BeginSave(c, session)
    \/ \E c \in Callers, dbOk \in BOOLEAN : CompleteSave(c, dbOk)
    \/ Settle

SpecConc == Init /\ [][NextConc]_vars

\* ------------------------------- the Prisma StorageService while time passes
\* Sessions that differ in sessionId and messages only.
TimedSessions ==
    [sessionId : SessionIds, messages : {<<M1>>, <<M1, M2>>},
     timestamp : {[form |-> "iso", inst |-> 1]}, metadata : {Undefined}]

NextTime ==
    \/ Tick
    \/ \E session \in TimedSessions, dbOk \in BOOLEAN : SaveSession(session, dbOk)
    \/ \E sessionId \in SessionIds : GetSession(sessionId, TRUE)
    \/ \E sessionId \in SessionIds : DeleteSession(sessionId, TRUE)
    \/ GetAllSessions(TRUE)
    \/ GetSessionCount(TRUE)

SpecTime == Init /\ [][NextTime]_vars

\* ------------------------------ writes on either StorageService over time
\* Sessions that differ in sessionId, messages and metadata.
FrameSessions ==
    [sessionId : SessionIds, messages : {<<M1>>, <<M1, M2>>},
     timestamp : {[form |-> "iso", inst |-> 1]},
     metadata : {Undefined, "ua1"}]

\* saveSession and deleteSession calls on whichever StorageService the
\* process runs, while time passes.
NextFrame ==
    \/ Tick
    \/ /\ sessions = << >>
       /\ \/ \E session \in FrameSessions, dbOk \in BOOLEAN :
                SaveSession(session, dbOk)
          \/ \E sessionId \in SessionIds, dbOk \in BOOLEAN :
                DeleteSession(sessionId, dbOk)
    \/ /\ rows = << >>
       /\ \/ \E session \in FrameSessions : MemSaveSession(session)
          \/ \E sessionId \in SessionIds : MemDeleteSession(sessionId)

SpecFrame == Init /\ [][NextFrame]_vars

\* ---------------------------------------------- calls on SecretsService
GetSecret(c, secretName, version, envValue) ==
    /\ sec.pending[c] = << >>
    /\ sec' = getSecret(sec, c, secretName, version, envValue)
    /\ UNCHANGED <<rows, sessions, now, last, resp, calls>>

GetSecretResumed(c, response) ==
    /\ sec.pending[c] # << >>
    /\ sec' = getSecretResumed(sec, c, response)
    /\ UNCHANGED <<rows, sessions, now, last, resp, calls>>

ClearCache ==
    /\ sec' = clearCache(sec)
    /\ UNCHANGED <<rows, sessions, now, last, resp, calls>>

\* The process starts in production or not, with or without a client and
\* a project id.
InitSecrets ==
    /\ rows = << >>
    /\ sessions = << >>
    /\ now = 0
    /\ last = NoCall
    /\ resp = NoResponse
    /\ calls = [c \in Callers |-> Idle]
    /\ \E isProduction \in BOOLEAN, ready \in BOOLEAN :
          sec = NewSecretsService(isProduction, ready)

NextSecrets ==
    \/ \E c \in Callers, secretName \in SecretNames, version \in Versions,
          envValue \in EnvValues :
          GetSecret(c, secretName, version, envValue)
    \/ \E c \in Callers, response \in AccessResponses :
          GetSecretResumed(c, response)
    \/ ClearCache

SpecSecrets == InitSecrets /\ [][NextSecrets]_vars

\* ------------------------------------------------------- chat.controller
\* Math.random().toString(36).substring(2, 9)
RandomSuffixes == {"a", "b"}

\* `chat-${Date.now()}-${Math.random().toString(36).substring(2, 9)}`
GeneratedId(t, suffix) == "chat-" \o ToString(t) \o "-" \o suffix

\* req.body of POST /chat/save.  sessionId is absent ("undefined"), empty
\* or a caller's identifier; messages is absent, a value that is no array,
\* or an array; timestamp is absent (form "absent") or a string.
Absent == [form |-> "absent", inst |-> 0]

BodyMessages ==
    { [kind |-> "undefined", items |-> << >>],
      [kind |-> "string", items |-> << >>] }
      \cup { [kind |-> "array", items |-> l] :
               l \in {<< >>, <<M1>>, <<M1, M2>>} }

SaveChatRequest ==
    [sessionId : {Undefined, "", "s1"}, messages : BodyMessages,
     timestamp : {Absent, [form |-> "date", inst |-> 2],
                  [form |-> "bad", inst |-> 0]}]

\* req.params.sessionId of GET /chat/:sessionId
PathSessionIds ==
    SessionIds \cup { GeneratedId(0, suffix) : suffix \in RandomSuffixes }

\* sessionId ?? `chat-...`: only undefined is replaced.
FinalSessionIdNullish(sessionId, t, suffix) ==
    IF sessionId = Undefined THEN GeneratedId(t, suffix) ELSE sessionId

\* sessionId || `chat-...`: undefined and "" are falsy.
FinalSessionId(sessionId, t, suffix) ==
    IF sessionId \in {Undefined, ""} THEN GeneratedId(t, suffix) ELSE sessionId

\* timestamp || new Date().toISOString()
FinalTimestamp(timestamp, t) ==
    IF timestamp = Absent THEN toISOString(t) ELSE timestamp

\* A handler that does not await saveSession: it answers 201 whatever
\* becomes of the save.
saveChatSessionNotAwaited(table, body, t, suffix, dbOk) ==
    IF body.messages.kind # "array"
    THEN [response |-> [handler |-> "saveChatSession", status |-> 400,
                        success |-> FALSE, error |-> "Invalid request",
                        message |-> "messages array is required"],
          call |-> NoCall, table |-> table]
    ELSE IF Len(body.messages.items) = 0
    THEN [response |-> [handler |-> "saveChatSession", status |-> 400,
                        success |-> FALSE, error |-> "Invalid request",
                        message |-> "messages array cannot be empty"],
          call |-> NoCall, table |-> table]
    ELSE
      LET finalSessionId == FinalSessionId(body.sessionId, t, suffix)
          session == [sessionId |-> finalSessionId,
                      messages  |-> body.messages.items,
                      timestamp |-> FinalTimestamp(body.timestamp, t),
                      metadata  |-> Undefined]
          r == saveSession(table, session, t, dbOk)
          call == Call("saveSession", finalSessionId, <<session>>, dbOk,
                       r.threw, << >>, FALSE, 0)
      IN  [response |-> [handler |-> "saveChatSession", status |-> 201,
                         success |-> TRUE, sessionId |-> finalSessionId,
                         message |-> "Chat session saved successfully"],
           call |-> call, table |-> r.table]

\* A handler that hands req.body's metadata on to saveSession.
saveChatSessionPassesMetadata(table, body, t, suffix, dbOk) ==
    IF body.messages.kind # "array"
    THEN [response |-> [handler |-> "saveChatSession", status |-> 400,
                        success |-> FALSE, error |-> "Invalid request",
                        message |-> "messages array is required"],
          call |-> NoCall, table |-> table]
    ELSE IF Len(body.messages.items) = 0
    THEN [response |-> [handler |-> "saveChatSession", status |-> 400,
                        success |-> FALSE, error |-> "Invalid request",
                        message |-> "messages array cannot be empty"],
          call |-> NoCall, table |-> table]
    ELSE
      LET finalSessionId == FinalSessionId(body.sessionId, t, suffix)
          session == [sessionId |-> finalSessionId,
                      messages  |-> body.messages.items,
                      timestamp |-> FinalTimestamp(body.timestamp, t),
                      metadata  |-> body.metadata]
          r == saveSession(table, session, t, dbOk)
          call == Call("saveSession", finalSessionId, <<session>>, dbOk,
                       r.threw, << >>, FALSE, 0)
      IN  IF r.threw
          THEN [response |-> [handler |-> "saveChatSession", status |-> 500,
                              success |-> FALSE,
                              error |-> "Failed to save chat session",
                              message |-> "Failed to save chat session"],
                call |-> call, table |-> r.table]
          ELSE [response |-> [handler |-> "saveChatSession", status |-> 201,
                              success |-> TRUE, sessionId |-> finalSessionId,
                              message |-> "Chat session saved successfully"],
                call |-> call, table |-> r.table]

\* A handler that answers with req.body.sessionId, not finalSessionId.
saveChatSessionEchoesBodyId(table, body, t, suffix, dbOk) ==
    IF body.messages.kind # "array"
    THEN [response |-> [handler |-> "saveChatSession", status |-> 400,
                        success |-> FALSE, error |-> "Invalid request",
                        message |-> "messages array is required"],
          call |-> NoCall, table |-> table]
    ELSE IF Len(body.messages.items) = 0
    THEN [response |-> [handler |-> "saveChatSession", status |-> 400,
                        success |-> FALSE, error |-> "Invalid request",
                        message |-> "messages array cannot be empty"],
          call |-> NoCall, table |-> table]
    ELSE
      LET finalSessionId == FinalSessionId(body.sessionId, t, suffix)
          session == [sessionId |-> finalSessionId,
                      messages  |-> body.messages.items,
                      timestamp |-> FinalTimestamp(body.timestamp, t),
                      metadata  |-> Undefined]
          r == saveSession(table, session, t, dbOk)
          call == Call("saveSession", finalSessionId, <<session>>, dbOk,
                       r.threw, << >>, FALSE, 0)
      IN  IF r.threw
          THEN [response |-> [handler |-> "saveChatSession", status |-> 500,
                              success |-> FALSE,
                              error |-> "Failed to save chat session",
                              message |-> "Failed to save chat session"],
                call |-> call, table |-> r.table]
          ELSE [response |-> [handler |-> "saveChatSession", status |-> 201,
                              success |-> TRUE, sessionId |-> body.sessionId,
                              message |-> "Chat session saved successfully"],
                call |-> call, table |-> r.table]

\* A handler that lacks the messages.length === 0 check.
saveChatSessionAcceptsEmpty(table, body, t, suffix, dbOk) ==
    IF body.messages.kind # "array"
    THEN [response |-> [handler |-> "saveChatSession", status |-> 400,
                        success |-> FALSE, error |-> "Invalid request",
                        message |-> "messages array is required"],
          call |-> NoCall, table |-> table]
    ELSE
      LET finalSessionId == FinalSessionId(body.sessionId, t, suffix)
          session == [sessionId |-> finalSessionId,
                      messages  |-> body.messages.items,
                      timestamp |-> FinalTimestamp(body.timestamp, t),
                      metadata  |-> Undefined]
          r == saveSession(table, session, t, dbOk)
          call == Call("saveSession", finalSessionId, <<session>>, dbOk,
                       r.threw, << >>, FALSE, 0)
      IN  IF r.threw
          THEN [response |-> [handler |-> "saveChatSession", status |-> 500,
                              success |-> FALSE,
                              error |-> "Failed to save chat session",
                              message |-> "Failed to save chat session"],
                call |-> call, table |-> r.table]
          ELSE [response |-> [handler |-> "saveChatSession", status |-> 201,
                              success |-> TRUE, sessionId |-> finalSessionId,
                              message |-> "Chat session saved successfully"],
                call |-> call, table |-> r.table]

\* saveChatSession: [response, call, table].  call is the StorageService
\* call made, NoCall when the request is answered without one.
saveChatSession(table, body, t, suffix, dbOk) ==
    IF body.messages.kind # "array"
    THEN [response |-> [handler |-> "saveChatSession", status |-> 400,
                        success |-> FALSE, error |-> "Invalid request",
                        message |-> "messages array is required"],
          call |-> NoCall, table |-> table]
    ELSE IF Len(body.messages.items) = 0
    THEN [response |-> [handler |-> "saveChatSession", status |-> 400,
                        success |-> FALSE, error |-> "Invalid request",
                        message |-> "messages array cannot be empty"],
          call |-> NoCall, table |-> table]
    ELSE
      LET finalSessionId == FinalSessionId(body.sessionId, t, suffix)
          session == [sessionId |-> finalSessionId,
                      messages  |-> body.messages.items,
                      timestamp |-> FinalTimestamp(body.timestamp, t),
                      metadata  |-> Undefined]
          r == saveSession(table, session, t, dbOk)
          call == Call("saveSession", finalSessionId, <<session>>, dbOk,
                       r.threw, << >>, FALSE, 0)
      IN  IF r.threw
          THEN [response |-> [handler |-> "saveChatSession", status |-> 500,
                              success |-> FALSE,
                              error |-> "Failed to save chat session",
                              message |-> "Failed to save chat session"],
                call |-> call, table |-> r.table]
          ELSE [response |-> [handler |-> "saveChatSession", status |-> 201,
                              success |-> TRUE, sessionId |-> finalSessionId,
                              message |-> "Chat session saved successfully"],
                call |-> call, table |-> r.table]

\* The earlier saveChatSession, which requires a sessionId and generates
\* none: [response, call, table].
saveChatSessionRequiringId(table, body, t, dbOk) ==
    IF body.sessionId \in {Undefined, ""} \/ body.messages.kind # "array"
    THEN [response |-> [handler |-> "saveChatSession", status |-> 400,
                        success |-> FALSE, error |-> "Invalid request",
                        message |-> "sessionId and messages array are required"],
          call |-> NoCall, table |-> table]
    ELSE IF Len(body.messages.items) = 0
    THEN [response |-> [handler |-> "saveChatSession", status |-> 400,
                        success |-> FALSE, error |-> "Invalid request",
                        message |-> "messages array cannot be empty"],
          call |-> NoCall, table |-> table]
    ELSE
      LET session == [sessionId |-> body.sessionId,
                      messages  |-> body.messages.items,
                      timestamp |-> FinalTimestamp(body.timestamp, t),
                      metadata  |-> Undefined]
          r == saveSession(table, session, t, dbOk)
          call == Call("saveSession", body.sessionId, <<session>>, dbOk,
                       r.threw, << >>, FALSE, 0)
      IN  IF r.threw
          THEN [response |-> [handler |-> "saveChatSession", status |-> 500,
                              success |-> FALSE,
                              error |-> "Failed to save chat session",
                              message |-> "Failed to save chat session"],
                call |-> call, table |-> r.table]
          ELSE [response |-> [handler |-> "saveChatSession", status |-> 201,
                              success |-> TRUE, sessionId |-> body.sessionId,
                              message |-> "Chat session saved successfully"],
                call |-> call, table |-> r.table]

\* A handler without the if (!session) branch.
getChatSessionWithoutNullCheck(table, sessionId, dbOk) ==
    LET r == getSession(table, sessionId, dbOk)
        call == Call("getSession", sessionId, << >>, dbOk, r.threw, r.value,
                     FALSE, 0)
    IN  IF r.threw
        THEN [response |-> [handler |-> "getChatSession", status |-> 500,
                            success |-> FALSE,
                            error |-> "Failed to fetch chat session"],
              call |-> call]
        ELSE [response |-> [handler |-> "getChatSession", status |-> 200,
                            success |-> TRUE, data |-> r.value],
              call |-> call]

\* getChatSession: [response, call].
getChatSession(table, sessionId, dbOk) ==
    LET r == getSession(table, sessionId, dbOk)
        call == Call("getSession", sessionId, << >>, dbOk, r.threw, r.value,
                     FALSE, 0)
    IN  IF r.threw
        THEN [response |-> [handler |-> "getChatSession", status |-> 500,
                            success |-> FALSE,
                            error |-> "Failed to fetch chat session"],
              call |-> call]
        ELSE IF r.value = << >>
        THEN [response |-> [handler |-> "getChatSession", status |-> 404,
                            success |-> FALSE, error |-> "Not found",
                            message |-> "Chat session not found"],
              call |-> call]
        ELSE [response |-> [handler |-> "getChatSession", status |-> 200,
                            success |-> TRUE, data |-> r.value[1]],
              call |-> call]

\* A handler that answers 404 when getAllSessions returns no session.
getAllChatSessionsEmptyIsNotFound(table, dbOk) ==
    { LET call == Call("getAllSessions", "", << >>, dbOk, r.threw, r.value,
                       FALSE, 0)
      IN  IF r.threw
          THEN [response |-> [handler |-> "getAllChatSessions", status |-> 500,
                              success |-> FALSE,
                              error |-> "Failed to fetch chat sessions"],
                call |-> call]
          ELSE IF r.value = << >>
          THEN [response |-> [handler |-> "getAllChatSessions", status |-> 404,
                              success |-> FALSE, error |-> "Not found"],
                call |-> call]
          ELSE [response |-> [handler |-> "getAllChatSessions", status |-> 200,
                              success |-> TRUE, count |-> Len(r.value),
                              data |-> r.value],
                call |-> call]
      : r \in getAllSessions(table, dbOk) }

\* getAllChatSessions: the possible [response, call].
getAllChatSessions(table, dbOk) ==
    { LET call == Call("getAllSessions", "", << >>, dbOk, r.threw, r.value,
                       FALSE, 0)
      IN  IF r.threw
          THEN [response |-> [handler |-> "getAllChatSessions", status |-> 500,
                              success |-> FALSE,
                              error |-> "Failed to fetch chat sessions"],
                call |-> call]
          ELSE [response |-> [handler |-> "getAllChatSessions", status |-> 200,
                              success |-> TRUE, count |-> Len(r.value),
                              data |-> r.value],
                call |-> call]
      : r \in getAllSessions(table, dbOk) }

\* A health check that never assigns the count it awaited.
healthCheckDropsCount(table, dbOk) ==
    LET r == getSessionCount(table, dbOk)
        dbHealthy == ~r.threw
    IN  [response |-> [handler |-> "healthCheck",
                       status |-> IF dbHealthy THEN 200 ELSE 503,
                       success |-> TRUE,
                       health |-> IF dbHealthy THEN "healthy" ELSE "degraded",
                       connected |-> dbHealthy,
                       sessionCount |-> 0],
         call |-> Call("getSessionCount", "", << >>, dbOk, r.threw, << >>,
                       FALSE, r.value)]

\* healthCheck: dbHealthy is set after the awaited getSessionCount returns
\* and stays false when it throws.
healthCheck(table, dbOk) ==
    LET r == getSessionCount(table, dbOk)
        dbHealthy == ~r.threw
        sessionCount == IF r.threw THEN 0 ELSE r.value
    IN  [response |-> [handler |-> "healthCheck",
                       status |-> IF dbHealthy THEN 200 ELSE 503,
                       success |-> TRUE,
                       health |-> IF dbHealthy THEN "healthy" ELSE "degraded",
                       connected |-> dbHealthy,
                       sessionCount |-> sessionCount],
         call |-> Call("getSessionCount", "", << >>, dbOk, r.threw, << >>,
                       FALSE, r.value)]

\* ------------------------------------------------------------ HTTP requests
PostChatSave(body, suffix, dbOk) ==
    LET h == saveChatSession(rows, body, now, suffix, dbOk) IN
    /\ rows' = h.table
    /\ last' = h.call
    /\ resp' = h.response
    /\ UNCHANGED <<sec, calls, sessions, now>>

GetChat(sessionId, dbOk) ==
    LET h == getChatSession(rows, sessionId, dbOk) IN
    /\ last' = h.call
    /\ resp' = h.response
    /\ UNCHANGED <<sec, calls, rows, sessions, now>>

GetChats(dbOk) ==
    /\ \E h \in getAllChatSessions(rows, dbOk) :
          /\ last' = h.call
          /\ resp' = h.response
    /\ UNCHANGED <<sec, calls, rows, sessions, now>>

GetHealth(dbOk) ==
    LET h == healthCheck(rows, dbOk) IN
    /\ last' = h.call
    /\ resp' = h.response
    /\ UNCHANGED <<sec, calls, rows, sessions, now>>

\* The HTTP surface over the Prisma StorageService.
NextHttp ==
    \/ \E body \in SaveChatRequest, suffix \in RandomSuffixes, dbOk \in BOOLEAN :
          PostChatSave(body, suffix, dbOk)
    \/ \E sessionId \in PathSessionIds, dbOk \in BOOLEAN : GetChat(sessionId, dbOk)
    \/ \E dbOk \in BOOLEAN : GetChats(dbOk)
    \/ \E dbOk \in BOOLEAN : GetHealth(dbOk)

SpecHttp == Init /\ [][NextHttp]_vars

\* ----------------------- POST /chat/save on a table that holds metadata
\* Request bodies that also carry a metadata property, which
\* SaveChatRequest does not name.
MetaRequests ==
    [sessionId : {Undefined, "s1"},
     messages  : { [kind |-> "array", items |-> l] : l \in {<<M1>>, <<M1, M2>>} },
     timestamp : {Absent},
     metadata  : {Undefined, "ua2"}]

\* Sessions another caller of the StorageService saves with metadata.
SeedSessions ==
    [sessionId : {"s1"}, messages : {<<M1>>},
     timestamp : {[form |-> "iso", inst |-> 1]}, metadata : {"ua1"}]

NextHttpMeta ==
    \/ \E body \in MetaRequests, suffix \in RandomSuffixes, dbOk \in BOOLEAN :
          PostChatSave(body, suffix, dbOk)
    \/ \E session \in SeedSessions : SaveSession(session, TRUE)
    \/ GetChat("s1", TRUE)

SpecHttpMeta == Init /\ [][NextHttpMeta]_vars

\* ======================================================== StorageService
\* The sessionIds stored, and how many records hold a given one.
StoredIds ==
    { rows[i].sessionId : i \in 1..Len(rows) }
        \cup { sessions[i].key : i \in 1..Len(sessions) }

RecordsOf(sessionId) ==
    Cardinality({ i \in 1..Len(rows) : rows[i].sessionId = sessionId })
        + Cardinality({ i \in 1..Len(sessions) : sessions[i].key = sessionId })

\* An absent metadata property and a NULL metadata column both mean "none".
SameMetadata(a, b) == a = b \/ {a, b} \subseteq {Undefined, Null}

\* C1: a session saved successfully and fetched by the very next call (a
\* getSession of the same sessionId whose round trip works) comes back with
\* the sessionId, messages and metadata that were saved.
C1_RoundTrip ==
    [][ ( /\ last.op = "saveSession" /\ ~last.threw
          /\ last'.op = "getSession" /\ last'.dbOk
          /\ last'.sessionId = last.sessionId
          /\ rows' = rows )
        => ( /\ Len(last'.result) = 1
             /\ last'.result[1].sessionId = last.arg[1].sessionId
             /\ last'.result[1].messages = last.arg[1].messages
             /\ SameMetadata(last'.result[1].metadata, last.arg[1].metadata) )
      ]_vars

\* C2: in every reachable state the store holds at most one record per
\* sessionId.
C2_OneRecordPerSessionId ==
    \A sessionId \in StoredIds : RecordsOf(sessionId) = 1

\* A save of a sessionId that was stored before another, still stored, one:
\* that save was a repeated save (an insert would have been appended).
C2_Witness ==
    /\ last.op = "saveSession" /\ ~last.threw
    /\ Len(rows) = 2
    /\ rows[1].sessionId = last.sessionId

\* C3: after a successful saveSession the stored messages, timestamp and
\* metadata are exactly those of that save; a save without metadata leaves
\* no metadata stored.
C3_FullReplace ==
    (last.op = "saveSession" /\ ~last.threw) =>
        \E i \in 1..Len(rows) :
            /\ rows[i].sessionId = last.arg[1].sessionId
            /\ rows[i].messages = last.arg[1].messages
            /\ rows[i].timestamp = NewDate(last.arg[1].timestamp)
            /\ SameMetadata(rows[i].metadata, last.arg[1].metadata)

\* C4: a successful saveSession sets updatedAt to the time of the save, and
\* createdAt to that time when the sessionId was not stored and to what it
\* was when the sessionId was stored.
C4_CreatedOnceUpdatedAlways ==
    [][ ( /\ last'.op = "saveSession" /\ ~last'.threw
          /\ now' = now )
        => LET i == FindUnique(rows, last'.sessionId)
               j == FindUnique(rows', last'.sessionId)
           IN  /\ j # 0
               /\ rows'[j].updatedAt = now
               /\ rows'[j].createdAt = IF i # 0 THEN rows[i].createdAt ELSE now
      ]_vars

\* The second save of a sessionId, later than the first.
C4_Witness ==
    /\ last.op = "saveSession" /\ ~last.threw
    /\ \E i \in 1..Len(rows) :
          /\ rows[i].sessionId = last.sessionId
          /\ rows[i].createdAt = 0
          /\ rows[i].updatedAt = now
          /\ now > 0

\* The instant a timestamp string denotes.
Instant(s) == NewDate(s)

\* C5: getAllSessions returns every stored session exactly once, and of two
\* sessions the one with the later timestamp comes first.
C5_AllSortedByTimestampDesc ==
    (last.op = "getAllSessions" /\ last.dbOk) =>
        /\ Len(last.result) = Cardinality(StoredIds)
        /\ { last.result[k].sessionId : k \in 1..Len(last.result) } = StoredIds
        /\ \A k, l \in 1..Len(last.result) :
              ( /\ Instant(last.result[k].timestamp) # NaN
                /\ Instant(last.result[k].timestamp)
                      < Instant(last.result[l].timestamp) ) => l < k

\* C6: sessions of equal timestamp are returned in insertion order (rows
\* are kept in the order of their creation).
C6_TiesInInsertionOrder ==
    (last.op = "getAllSessions" /\ last.dbOk) =>
        \A k, l \in 1..Len(last.result) :
            ( /\ k < l
              /\ last.result[k].timestamp = last.result[l].timestamp )
            => FindUnique(rows, last.result[k].sessionId)
                  < FindUnique(rows, last.result[l].sessionId)

\* C7: a getSession or saveSession whose storage round trip fails signals
\* the failure (throws) instead of returning normally.
C7_FailureIsSignalled ==
    (last.op \in {"getSession", "saveSession"} /\ ~last.dbOk) => last.threw

\* ================================================================== HTTP
\* The latest response answers a request whose storage operation failed.
StorageFailed == last.op # "none" /\ ~last.dbOk

\* C8: POST /chat/save, GET /chat/:sessionId and GET /chat answer a failed
\* storage operation with a 500-class response.
C8_StorageFailureIs500 ==
    ( /\ resp.handler \in {"saveChatSession", "getChatSession",
                           "getAllChatSessions"}
      /\ StorageFailed )
    => resp.status \in 500..599

\* C9: GET /health answers an unreachable storage medium with 503,
\* status "degraded" and database.connected = false.
C9_HealthDegradedWhenUnreachable ==
    (resp.handler = "healthCheck" /\ StorageFailed) =>
        /\ resp.status = 503
        /\ resp.health = "degraded"
        /\ resp.connected = FALSE

\* C10: GET /health answers a reachable storage medium with 200, status
\* "healthy", database.connected = true and the number of stored sessions.
C10_HealthyWithCount ==
    (resp.handler = "healthCheck" /\ ~StorageFailed) =>
        /\ resp.status = 200
        /\ resp.health = "healthy"
        /\ resp.connected = TRUE
        /\ resp.sessionCount = Len(rows)

\* A health check over a reachable store that holds two sessions.
C10_Witness ==
    /\ resp.handler = "healthCheck" /\ ~StorageFailed
    /\ Len(rows) = 2
    /\ resp.sessionCount = 2

\* ============================================== validation of POST /chat/save
\* Request bodies whose messages field is missing, no array, or an empty
\* array.
InvalidMessages ==
    { body \in SaveChatRequest :
        body.messages.kind # "array" \/ body.messages.items = << >> }

\* C11: a POST /chat/save whose messages field is missing, is not a
\* sequence or is an empty sequence is answered with 400 and success=false,
\* makes no saveSession call and leaves the stored sessions unchanged.  In
\* every reachable state the handler does so for every such body, and every
\* step that answers 400 made no StorageService call and kept the table.
C11_InvalidMessagesRejected ==
    /\ [](\A body \in InvalidMessages, suffix \in RandomSuffixes,
             dbOk \in BOOLEAN :
            LET h == saveChatSession(rows, body, now, suffix, dbOk) IN
            /\ h.response.status = 400
            /\ h.response.success = FALSE
            /\ h.call = NoCall
            /\ h.table = rows)
    /\ [][ (resp'.handler = "saveChatSession" /\ resp'.status = 400)
             => (resp'.success = FALSE /\ last' = NoCall /\ rows' = rows) ]_vars

\* A request was answered 400 while two sessions were stored.
C11_Witness ==
    /\ resp.handler = "saveChatSession"
    /\ resp.status = 400
    /\ resp.message = "messages array cannot be empty"
    /\ last = NoCall
    /\ Len(rows) = 2

\* ================================================ the effective identifier
BeginsWithChat(id) == Len(id) >= 5 /\ SubSeq(id, 1, 5) = "chat-"

\* A sessionId is supplied when the body carries a non-empty one.
Supplied(body) == body.sessionId \notin {Undefined, ""}

\* What a 201 answer h to body must be: it names the supplied sessionId or
\* else a generated one beginning with "chat-", the session is stored under
\* the sessionId it names, and GET /chat/:sessionId with it answers 200 with
\* that session.
EffectiveIdReturned(body, h) ==
    LET id == h.response.sessionId
        g  == getChatSession(h.table, id, TRUE).response
    IN  /\ IF Supplied(body) THEN id = body.sessionId ELSE BeginsWithChat(id)
        /\ h.call.op = "saveSession" /\ h.call.sessionId = id
        /\ FindUnique(h.table, id) # 0
        /\ g.status = 200
        /\ g.data.sessionId = id
        /\ g.data.messages = body.messages.items

\* C12: a successful POST /chat/save returns 201 with the identifier under
\* which the session was stored, the supplied sessionId when one is
\* supplied and otherwise a generated one beginning with "chat-", and a
\* following GET /chat/:sessionId with the returned identifier finds the
\* session.  Both saveChatSession handlers are held to it in every reachable
\* state, and so is every GET that follows a 201.
C12_EffectiveIdentifier ==
    /\ [](\A body \in SaveChatRequest, suffix \in RandomSuffixes,
             dbOk \in BOOLEAN :
            LET h  == saveChatSession(rows, body, now, suffix, dbOk)
                h1 == saveChatSessionRequiringId(rows, body, now, dbOk)
            IN  /\ h.response.status = 201 => EffectiveIdReturned(body, h)
                /\ h1.response.status = 201 => EffectiveIdReturned(body, h1))
    /\ [][ (/\ resp.handler = "saveChatSession" /\ resp.status = 201
            /\ resp'.handler = "getChatSession"
            /\ last'.sessionId = resp.sessionId /\ last'.dbOk)
             => (/\ resp'.status = 200
                 /\ resp'.data.sessionId = resp.sessionId
                 /\ resp'.data.messages = last.arg[1].messages) ]_vars

\* A session saved without a sessionId was fetched by the generated one.
C12_Witness ==
    /\ resp.handler = "getChatSession"
    /\ resp.status = 200
    /\ BeginsWithChat(resp.data.sessionId)
    /\ last.sessionId = resp.data.sessionId

\* ============================================================ deleteSession
\* C13: deleteSession on a stored sessionId returns true and a following
\* getSession of it returns null; deleteSession on a sessionId that is not
\* stored returns false, throws nothing and leaves the store as it was.
\* Stated of every deleteSession call whose storage round trip works, on
\* either StorageService.
C13_DeleteSession ==
    [][ (last'.op = "deleteSession" /\ last'.dbOk)
          => LET id == last'.sessionId IN
             /\ ~last'.threw
             /\ last'.flag = (id \in StoredIds)
             /\ id \in StoredIds
                  => /\ id \notin StoredIds'
                     /\ getSession(rows', id, TRUE) = Returns(<< >>)
                     /\ memGetSession(sessions', id) = << >>
             /\ id \notin StoredIds
                  => /\ rows' = rows
                     /\ sessions' = sessions ]_vars

\* One of two stored sessions was deleted from the table.
C13_Witness ==
    /\ last.op = "deleteSession"
    /\ last.flag
    /\ Len(rows) = 1
    /\ rows[1].sessionId # last.sessionId

\* ========================================================== getSessionCount
\* What getSessionCount returns for the store as it stands, on whichever
\* StorageService holds the sessions.
CountNow == getSessionCount(rows, TRUE).value + memGetSessionCount(sessions)

\* C14: after any sequence of successful saveSession and deleteSession
\* calls getSessionCount equals the number of distinct sessionIds stored;
\* N saves of distinct sessionIds and one delete leave N-1.  Every
\* getSessionCount call whose round trip works returns the number of
\* distinct stored sessionIds, a deleteSession that returns true lowers the
\* count by one, a successful saveSession of a new sessionId raises it by
\* one and any other call leaves it.
C14_CountIsNumberStored ==
    /\ []((last.op = "getSessionCount" /\ last.dbOk)
            => (last.count = Cardinality(StoredIds) /\ last.count = CountNow))
    /\ [][ CountNow' = CountNow
             + (IF last'.op = "saveSession" /\ ~last'.threw
                   /\ last'.sessionId \notin StoredIds THEN 1 ELSE 0)
             - (IF last'.op = "deleteSession" /\ last'.flag
                   /\ last'.sessionId \in StoredIds THEN 1 ELSE 0) ]_vars

\* getSessionCount returned 2 with two sessionIds in the table.
C14_Witness ==
    /\ last.op = "getSessionCount"
    /\ last.dbOk
    /\ last.count = 2
    /\ Cardinality(StoredIds) = 2
    /\ Len(rows) = 2

\* ==================================================== GET /chat/:sessionId
\* C15: GET /chat/:sessionId returns 200 with success=true and the session
\* as data exactly when a session of that sessionId is stored, and 404 with
\* success=false and error "Not found" exactly when none is.  Stated of
\* every request whose storage round trip works.
C15_GetChatFoundOrNotFound ==
    (resp.handler = "getChatSession" /\ last.dbOk)
      => LET i == FindUnique(rows, last.sessionId) IN
         IF last.sessionId \in StoredIds
         THEN /\ resp.status = 200
              /\ resp.success = TRUE
              /\ resp.data = RowToSession(rows[i])
         ELSE /\ resp.status = 404
              /\ resp.success = FALSE
              /\ resp.error = "Not found"

\* A stored session was fetched while another sessionId was stored too.
C15_Witness ==
    /\ resp.handler = "getChatSession"
    /\ resp.status = 200
    /\ resp.data.sessionId = "s1"
    /\ Len(rows) = 2

\* ================================================================ GET /chat
\* C16: GET /chat returns 200 with count equal to the length of data and to
\* the number of sessions stored; with no session stored it returns
\* data = [] and count = 0, not an error.  Stated of every request whose
\* storage round trip works.
C16_GetChatsCount ==
    (resp.handler = "getAllChatSessions" /\ last.dbOk)
      => /\ resp.status = 200
         /\ resp.success = TRUE
         /\ resp.count = Len(resp.data)
         /\ resp.count = Cardinality(StoredIds)
         /\ { resp.data[k].sessionId : k \in 1..Len(resp.data) } = StoredIds
         /\ StoredIds = {} => (resp.data = << >> /\ resp.count = 0)

\* GET /chat answered with the three sessions stored.
C16_Witness ==
    /\ resp.handler = "getAllChatSessions"
    /\ resp.status = 200
    /\ resp.count = 3
    /\ Len(resp.data) = 3
    /\ Len(rows) = 3

\* ==================================================== failing saveSession
\* C17: a saveSession that fails because the storage medium is unreachable
\* or rejects the write throws to its caller and leaves the stored sessions
\* exactly as they were: no new record, no partly updated record.
C17_FailedSaveWritesNothing ==
    [][ (last'.op = "saveSession")
          => /\ (~last'.dbOk \/ NewDate(last'.arg[1].timestamp) = NaN)
                  => last'.threw
             /\ last'.threw => rows' = rows ]_vars

\* A save of a stored sessionId with other messages failed on the storage
\* round trip.
C17_Witness ==
    /\ last.op = "saveSession"
    /\ ~last.dbOk
    /\ last.threw
    /\ \E i \in 1..Len(rows) :
          /\ rows[i].sessionId = last.sessionId
          /\ rows[i].messages # last.arg[1].messages

\* ===================================================== overlapping saves
\* Both callers' saveSession calls of this round have returned.
BothDone == \A c \in Callers : calls[c].pc = "done"

\* The session each caller saved in this round.
Saved(c) == calls[c].session[1]

\* The save of this round whose write completed last: the latest call when
\* it wrote, else the other caller's.
LastWritten ==
    IF ~last.threw THEN last.arg[1]
    ELSE Saved(CHOOSE c \in Callers : ~calls[c].threw)

\* C18: two concurrent saveSession calls for one sessionId leave, in every
\* interleaving, exactly one record of it whose messages, timestamp and
\* metadata all come from the save whose write completed last, never a
\* mixture of the two saves.
C18_LastWriteWins ==
    (/\ BothDone
     /\ Saved("a").sessionId = Saved("b").sessionId
     /\ \E c \in Callers : ~calls[c].threw)
      => LET id == Saved("a").sessionId
             i  == FindUnique(rows, id)
         IN  /\ RecordsOf(id) = 1
             /\ rows[i].messages = LastWritten.messages
             /\ rows[i].timestamp = NewDate(LastWritten.timestamp)
             /\ SameMetadata(rows[i].metadata, LastWritten.metadata)

\* The rows of a table, whatever their physical order.
RowSet(table) == { table[i] : i \in 1..Len(table) }

\* The table after saveSession(first) and then saveSession(second), both
\* round trips working.
Sequentially(table, first, second) ==
    saveSession(saveSession(table, first, now, TRUE).table, second, now,
                TRUE).table

\* The row of Saved(c)'s sessionId holds exactly what caller c saved.
HoldsOwnPayload(c) ==
    LET i == FindUnique(rows, Saved(c).sessionId) IN
    /\ RecordsOf(Saved(c).sessionId) = 1
    /\ rows[i].messages = Saved(c).messages
    /\ rows[i].timestamp = NewDate(Saved(c).timestamp)
    /\ SameMetadata(rows[i].metadata, Saved(c).metadata)

\* C19: concurrent saveSession calls for different sessionIds are
\* independent: in every interleaving both succeed and the store ends with
\* each sessionId holding exactly the payload of its own save, the result
\* of running the two saves one after the other in either order.
C19_IndependentSaves ==
    /\ (/\ \A c \in Callers : calls[c].pc = "pending"
        /\ Saved("a").sessionId # Saved("b").sessionId)
         => RowSet(Sequentially(rows, Saved("a"), Saved("b")))
              = RowSet(Sequentially(rows, Saved("b"), Saved("a")))
    /\ (/\ BothDone
        /\ Saved("a").sessionId # Saved("b").sessionId
        /\ \A c \in Callers : calls[c].dbOk)
         => \A c \in Callers : ~calls[c].threw /\ HoldsOwnPayload(c)

\* ================================================================ lifetime
\* C20: a saved session stays stored and retrievable by getSession through
\* every sequence of operations without a deleteSession call for its
\* sessionId; no other operation and no passage of time removes it.  Every
\* step other than a deleteSession call for a stored sessionId, a tick of
\* the clock included, leaves that sessionId stored and found by getSession.
C20_StoredUntilDeleted ==
    [][ \A id \in SessionIds :
          (/\ id \in StoredIds
           /\ ~(last'.op = "deleteSession" /\ last'.sessionId = id
                  /\ now' = now))
            => /\ id \in StoredIds'
               /\ Len(getSession(rows', id, TRUE).value) = 1
               /\ getSession(rows', id, TRUE).value[1].sessionId = id ]_vars

\* A session created, updated later and fetched later still.
C20_Witness ==
    /\ last.op = "getSession"
    /\ Len(last.result) = 1
    /\ \E i \in 1..Len(rows) :
          /\ rows[i].sessionId = last.sessionId
          /\ rows[i].updatedAt < now
          /\ rows[i].createdAt < rows[i].updatedAt

\* ========================================================== message order
\* The messages the table holds for a sessionId, << >> when it holds none.
StoredMessages(table, sessionId) ==
    LET i == FindUnique(table, sessionId) IN
    IF i = 0 THEN << >> ELSE table[i].messages

\* C21: the messages getSession and getAllSessions return are the sequence
\* given to the most recent saveSession of that sessionId, same elements in
\* the same order.  A successful saveSession leaves exactly its sequence to
\* be read by both; no other call changes what is stored for a sessionId
\* that stays stored; and what a call returned is what is stored.
C21_MessageOrderPreserved ==
    /\ []((last.op = "saveSession" /\ ~last.threw)
            => LET id == last.sessionId
                   given == last.arg[1].messages
               IN  /\ getSession(rows, id, TRUE).value[1].messages = given
                   /\ \A r \in getAllSessions(rows, TRUE) :
                        \A k \in 1..Len(r.value) :
                           r.value[k].sessionId = id
                             => r.value[k].messages = given)
    /\ [][ \A id \in SessionIds :
             (/\ rows' # rows
              /\ ~(last'.op = "saveSession" /\ last'.sessionId = id)
              /\ FindUnique(rows, id) # 0 /\ FindUnique(rows', id) # 0)
               => StoredMessages(rows', id) = StoredMessages(rows, id) ]_vars
    /\ []((last.op = "getSession" /\ Len(last.result) = 1)
            => last.result[1].messages = StoredMessages(rows, last.sessionId))
    /\ []((last.op = "getAllSessions")
            => \A k \in 1..Len(last.result) :
                  last.result[k].messages
                    = StoredMessages(rows, last.result[k].sessionId))

\* getSession returned [Second, First], the order last saved.
C21_Witness ==
    /\ last.op = "getSession"
    /\ Len(last.result) = 1
    /\ last.result[1].messages = <<M2, M1>>
    /\ StoredMessages(rows, last.sessionId) = <<M2, M1>>

\* =============================================================== getSession
\* C22: getSession is side-effect free: for a stored or an unknown
\* sessionId it leaves the stored sessions and every stored field as they
\* were, and for an unknown sessionId it returns null and throws nothing.
\* Stated of either StorageService.
C22_GetSessionReadsOnly ==
    /\ [][ last'.op = "getSession"
             => (rows' = rows /\ sessions' = sessions) ]_vars
    /\ []((last.op = "getSession" /\ last.sessionId \notin StoredIds)
            => (~last.threw /\ last.result = << >>))

\* getSession of an unknown sessionId returned null while the table held
\* another session.
C22_Witness ==
    /\ last.op = "getSession"
    /\ last.dbOk
    /\ last.sessionId \notin StoredIds
    /\ last.result = << >>
    /\ Len(rows) = 1

\* ================================================== the two StorageServices
\* C23: given the same saveSession, getSession, getAllSessions,
\* deleteSession and getSessionCount calls with no storage failure, the
\* in-memory and the Prisma StorageService return the same results at every
\* step: same found or not found, same messages, same list order, same
\* delete booleans, same counts.  last holds the Prisma result; the
\* in-memory result is computed from the Map.
C23_SameResults ==
    /\ [](last.op = "getSession"
            => LET m == memGetSession(sessions, last.sessionId) IN
               /\ Len(last.result) = Len(m)
               /\ Len(m) = 1 => last.result[1].messages = m[1].messages)
    /\ [](last.op = "getAllSessions"
            => LET m == memGetAllSessions(sessions) IN
               /\ Len(last.result) = Len(m)
               /\ \A k \in 1..Len(m) :
                    k <= Len(last.result)
                      => /\ last.result[k].sessionId = m[k].sessionId
                         /\ last.result[k].messages = m[k].messages)
    /\ [](last.op = "getSessionCount"
            => last.count = memGetSessionCount(sessions))
    /\ [][ last'.op = "deleteSession"
             => last'.flag
                  = memDeleteSession(sessions, last'.sessionId).result ]_vars

\* ======================================================== frame of a write
\* What the store holds for a sessionId: its row of the table and its entry
\* of the Map, each << >> when there is none.
RecordOf(sessionId) ==
    [row   |-> IF FindUnique(rows, sessionId) = 0 THEN << >>
               ELSE << rows[FindUnique(rows, sessionId)] >>,
     entry |-> memGetSession(sessions, sessionId)]

\* C24: saveSession(id) and deleteSession(id) change only the record of
\* id: for every other sessionId its presence and its stored messages,
\* timestamp, metadata, createdAt and updatedAt are the same before and
\* after the call.  Stated of either StorageService.
C24_WritesTouchOneRecord ==
    [][ last'.op \in {"saveSession", "deleteSession"}
          => \A id \in SessionIds \ {last'.sessionId} :
                RecordOf(id)' = RecordOf(id) ]_vars

\* A row was updated at a time later than the last write of the other row.
C24_Witness ==
    /\ last.op = "saveSession"
    /\ ~last.threw
    /\ Len(rows) = 2
    /\ \E i, j \in 1..2 :
          /\ rows[i].sessionId = last.sessionId
          /\ rows[i].createdAt < rows[i].updatedAt
          /\ rows[i].updatedAt = now
          /\ rows[j].sessionId # last.sessionId
          /\ rows[j].updatedAt < now
          /\ rows[j].messages # rows[i].messages

Wrote(h) == h.call.op = "saveSession" /\ ~h.call.threw

\* C26: every POST /chat/save is answered with one response whose status
\* is 201, 400 or 500, and a session is created or updated in the store if
\* and only if the status is 201.  The handler returns one response for
\* every body in every reachable state; it is 201 exactly when saveSession
\* wrote, the row then holds the messages sent, and any other answer leaves
\* the table as it was.
C26_OneAnswerAnd201IffStored ==
    /\ \A body \in SaveChatRequest, suffix \in RandomSuffixes,
          dbOk \in BOOLEAN :
         LET h == saveChatSession(rows, body, now, suffix, dbOk) IN
         /\ h.response.handler = "saveChatSession"
         /\ h.response.status \in {201, 400, 500}
         /\ h.response.status = 201 <=> Wrote(h)
         /\ h.response.status = 201
              => StoredMessages(h.table, h.response.sessionId)
                   = body.messages.items
         /\ h.response.status # 201 => h.table = rows
    /\ resp.handler = "saveChatSession"
         => /\ resp.status \in {201, 400, 500}
            /\ resp.status = 201 <=> (last.op = "saveSession" /\ ~last.threw)

\* A POST for a stored sessionId was answered 500 and the row kept its
\* messages.
C26_Witness ==
    /\ resp.handler = "saveChatSession"
    /\ resp.status = 500
    /\ last.threw
    /\ StoredMessages(rows, last.sessionId) # << >>
    /\ StoredMessages(rows, last.sessionId) # last.arg[1].messages

\* ======================================================== generated sessionIds
\* C27: a POST /chat/save without a sessionId always creates a new session
\* and never overwrites one: the generated sessionId differs from every
\* stored sessionId and the number of sessions grows by exactly one.
C27_GeneratedIdIsFresh ==
    \A body \in SaveChatRequest, suffix \in RandomSuffixes, dbOk \in BOOLEAN :
       LET h == saveChatSession(rows, body, now, suffix, dbOk) IN
       (body.sessionId = Undefined /\ h.response.status = 201)
         => /\ h.response.sessionId \notin StoredIds
            /\ Len(h.table) = Len(rows) + 1

\* ====================================================== the empty sessionId
\* C28: a POST /chat/save whose sessionId is the empty string is treated
\* exactly like one without a sessionId: the session is stored under a
\* generated sessionId beginning with "chat-", never under the empty one,
\* so no session stored through the HTTP layer has an empty sessionId.
C28_EmptyIdIsNoId ==
    /\ \A body \in SaveChatRequest, suffix \in RandomSuffixes,
          dbOk \in BOOLEAN :
         body.sessionId = ""
           => LET h == saveChatSession(rows, body, now, suffix, dbOk)
                  n == saveChatSession(rows,
                                       [body EXCEPT !.sessionId = Undefined],
                                       now, suffix, dbOk)
              IN  /\ h = n
                  /\ h.response.status = 201
                       => /\ BeginsWithChat(h.response.sessionId)
                          /\ FindUnique(h.table, h.response.sessionId) # 0
                          /\ FindUnique(h.table, "") = 0
    /\ \A i \in 1..Len(rows) : rows[i].sessionId # ""

\* The state a POST with sessionId "" leaves: a 201 naming a generated
\* sessionId and one row under it.
C28_Witness ==
    /\ resp.handler = "saveChatSession"
    /\ resp.status = 201
    /\ BeginsWithChat(resp.sessionId)
    /\ \E body \in SaveChatRequest, suffix \in RandomSuffixes :
          /\ body.sessionId = ""
          /\ saveChatSession(<< >>, body, now, suffix, TRUE).response = resp
          /\ saveChatSession(<< >>, body, now, suffix, TRUE).table = rows

\* ================================================== metadata and POST /chat/save
\* The metadata column of the row of a sessionId, Null when there is no row.
StoredMetadata(table, sessionId) ==
    LET i == FindUnique(table, sessionId) IN
    IF i = 0 THEN Null ELSE table[i].metadata

\* C29: the HTTP layer passes only sessionId, messages and timestamp to
\* saveSession: metadata sent in a POST /chat/save body is never stored,
\* and a save through HTTP on a stored sessionId never changes the metadata
\* stored for it.  For every body, with or without metadata, the session
\* handed to saveSession has no metadata and the row written keeps the
\* metadata column it had (NULL for a new row); the metadata "ua2" that
\* only request bodies carry is in no row.
C29_HttpNeverWritesMetadata ==
    /\ \A body \in MetaRequests, suffix \in RandomSuffixes, dbOk \in BOOLEAN :
         LET h  == saveChatSession(rows, body, now, suffix, dbOk)
             id == h.call.sessionId
         IN  /\ h.call.op = "saveSession"
             /\ h.call.arg[1].metadata = Undefined
             /\ StoredMetadata(h.table, id) = StoredMetadata(rows, id)
             /\ Wrote(h) => StoredMessages(h.table, id) = body.messages.items
    /\ \A i \in 1..Len(rows) : rows[i].metadata # "ua2"

\* A POST updated the messages of a session stored with metadata "ua1",
\* which the row still holds.
C29_Witness ==
    /\ resp.handler = "saveChatSession"
    /\ resp.status = 201
    /\ resp.sessionId = "s1"
    /\ StoredMetadata(rows, "s1") = "ua1"
    /\ StoredMessages(rows, "s1") = <<M1, M2>>
    /\ last.arg[1].messages = <<M1, M2>>

\* The secret a production getSecret hands back for a key that is cached.
CachedAnswer(key) ==
    \A c \in Callers, secretName \in SecretNames, version \in Versions,
       envValue \in EnvValues :
       (CacheKey(secretName, version) = key /\ sec.pending[c] = << >>) =>
          LET s == getSecret(sec, c, secretName, version, envValue) IN
             /\ s.out.value = sec.secretsCache[key]
             /\ ~s.out.contacted
             /\ s.pending = sec.pending
             /\ s.secretsCache = sec.secretsCache

\* C30: in production, once getSecret has retrieved a non-empty value for a
\* name and version, every later getSecret for them returns that value
\* without contacting Secret Manager, until clearCache is called; a failed
\* or empty retrieval returns null and is never cached; outside production
\* getSecret answers from the environment variable and leaves the cache
\* alone.
C30_CachedUntilCleared ==
    /\ [](\A key \in CacheKeys :
             /\ sec.secretsCache[key] # << >> =>
                   /\ sec.isProduction
                   /\ sec.secretsCache[key] # <<"">>
                   /\ CachedAnswer(key)
             /\ (sec.out.op = "getSecret" /\ sec.out.contacted) =>
                   sec.out.value \in {<< >>, sec.secretsCache[sec.out.key]}
             /\ ~sec.isProduction =>
                   /\ ~sec.out.contacted
                   /\ \A c \in Callers : sec.pending[c] = << >>)
    /\ [][\A key \in CacheKeys :
             /\ (sec.secretsCache[key] # << >> /\ sec'.out.op # "clearCache")
                   => sec'.secretsCache[key] = sec.secretsCache[key]
             /\ (sec.secretsCache[key] = << >> /\ sec'.secretsCache[key] # << >>)
                   => /\ sec'.out.op = "getSecret"
                      /\ sec'.out.contacted
                      /\ sec'.out.key = key
                      /\ sec'.out.value = sec'.secretsCache[key]]_vars

====
